---- MODULE Spec2Model ----
(***************************************************************************)
(* A model of rocket-etagged-file-response (src/src/lib.rs):               *)
(* EtaggedFileResponse::from run by concurrent request handlers over one   *)
(* shared EtagMap (Mutex<HashMap<String, String>>) and a file system that  *)
(* other processes may modify.                                             *)
(***************************************************************************)
EXTENDS Integers, Sequences, FiniteSets, TLC

\* ------------------------------------------------------------------ bounds

\* Longest file content, in bytes.
MaxLen == 2
\* Requests started in one behaviour.
MaxRequests == 2
\* External modifications of the file system in one behaviour.
MaxMods == 1

\* The byte values files are made of.
ByteSet == {97, 98}

\* The request handlers (threads of the hosting server).
Handlers == {"h1", "h2"}

\* const FILE_RESPONSE_CHUNK_SIZE: u64 = 4096
FILE_RESPONSE_CHUNK_SIZE == 4096

\* ------------------------------------------------------- 64-bit arithmetic
\* A u64 is the tuple of its 64 bits, bit 1 the least significant.

Bits == 1..64

Zero64 == [i \in Bits |-> 0]

Xor64(a, b) == [i \in Bits |-> (a[i] + b[i]) % 2]

Not64(a) == [i \in Bits |-> 1 - a[i]]

Shr64(a, n) == [i \in Bits |-> IF i + n <= 64 THEN a[i + n] ELSE 0]

Pow2(n) == IF n = 0 THEN 1 ELSE IF n = 1 THEN 2 ELSE IF n = 2 THEN 4
           ELSE IF n = 3 THEN 8 ELSE IF n = 4 THEN 16 ELSE IF n = 5 THEN 32
           ELSE IF n = 6 THEN 64 ELSE 128

\* `value as u8`: the low eight bits, as a number.
AsU8(a) == a[1] + 2 * a[2] + 4 * a[3] + 8 * a[4] + 16 * a[5] + 32 * a[6]
           + 64 * a[7] + 128 * a[8]

\* `i as u64` for a byte i.
FromU8(b) == [i \in Bits |-> IF i <= 8 THEN (b \div Pow2(i - 1)) % 2 ELSE 0]

\* The hexadecimal digits of a u64, most significant first.
NibbleAt(a, k) == a[4 * k - 3] + 2 * a[4 * k - 2] + 4 * a[4 * k - 1] + 8 * a[4 * k]

FromNibbles(ns) == [i \in Bits |-> (ns[17 - ((i + 3) \div 4)] \div Pow2((i - 1) % 4)) % 2]

\* ------------------------------------------------------------------ CRC-64

\* crc64::ECMA = 0xc96c5795d7870f42 (the reflected ECMA-182 polynomial).
ECMA == FromNibbles(<<12, 9, 6, 12, 5, 7, 9, 5, 13, 7, 8, 7, 0, 15, 4, 2>>)

RECURSIVE TableStep(_, _)
TableStep(value, n) ==
    IF n = 0 THEN value
    ELSE TableStep(IF value[1] = 1 THEN Xor64(Shr64(value, 1), ECMA)
                   ELSE Shr64(value, 1), n - 1)

\* crc64::make_table(ECMA)
make_table == [i \in 0..255 |-> TableStep(FromU8(i), 8)]

\* (value as u8) ^ i
XorU8(x, y) == AsU8(Xor64(FromU8(x), FromU8(y)))

RECURSIVE UpdateLoop(_, _)
UpdateLoop(value, bytes) ==
    IF bytes = <<>> THEN value
    ELSE UpdateLoop(Xor64(make_table[XorU8(AsU8(value), Head(bytes))], Shr64(value, 8)),
                    Tail(bytes))

\* An update that inverts the value on the way in only, so that a write does
\* not continue the previous one.
UpdateNotRestored(value, bytes) == UpdateLoop(Not64(value), bytes)

\* crc64::update(value, table, bytes)
update(value, bytes) == Not64(UpdateLoop(Not64(value), bytes))

\* crc64::Digest::new(crc64::ECMA): the initial value is 0.
DigestNew == Zero64

\* digest.write(&buffer[0..c])
DigestWrite(digest, bytes) == update(digest, bytes)

\* digest.sum64()
sum64(digest) == digest

\* ------------------------------------------------------- format!("{:X}", _)

HexDigit(n) == CASE n = 0 -> "0" [] n = 1 -> "1" [] n = 2 -> "2" [] n = 3 -> "3"
                 [] n = 4 -> "4" [] n = 5 -> "5" [] n = 6 -> "6" [] n = 7 -> "7"
                 [] n = 8 -> "8" [] n = 9 -> "9" [] n = 10 -> "A" [] n = 11 -> "B"
                 [] n = 12 -> "C" [] n = 13 -> "D" [] n = 14 -> "E" [] n = 15 -> "F"

\* Digits from nibble k (16 the most significant) down to nibble 1.
RECURSIVE HexFrom(_, _)
HexFrom(a, k) == IF k = 0 THEN "" ELSE HexDigit(NibbleAt(a, k)) \o HexFrom(a, k - 1)

\* The most significant non-zero nibble; 1 when the value is 0.
RECURSIVE TopNibble(_, _)
TopNibble(a, k) == IF k = 1 \/ NibbleAt(a, k) # 0 THEN k ELSE TopNibble(a, k - 1)

\* A rendering that drops every leading zero digit, the last one too.
FormatXBare(a) == IF a = Zero64 THEN "" ELSE HexFrom(a, TopNibble(a, 16))

\* format!("{:X}", crc64): uppercase, no padding, at least one digit.
FormatX(a) == HexFrom(a, TopNibble(a, 16))

\* The fingerprint one uninterrupted hashing pass computes for content c.
EtagOf(c) == FormatX(sum64(DigestWrite(DigestNew, c)))

\* ------------------------------------------------------------- file system

\* Canonical (absolute, symlink-free) paths.
CanonPaths == {"/srv/a.TXT", "/srv/b"}

\* Paths as handed to from(): "/srv/link" is a symbolic link to "/srv/a.TXT".
InputPaths == CanonPaths \cup {"/srv/link"}

\* What the path resolves to once symlinks are followed.
Resolve(p) == IF p = "/srv/link" THEN "/srv/a.TXT" ELSE p

Contents == UNION {[1..n -> ByteSet] : n \in 0..MaxLen}

\* The bytes and the longest content of the files whose hashing is checked
\* by itself: 68 is a byte whose checksum has leading zero digits.
HashBytes == {68, 97}
MaxHashLen == 3
HashInputs == UNION {[1..n -> HashBytes] : n \in 0..MaxHashLen}

Missing == [kind |-> "missing", content |-> <<>>]
Dir == [kind |-> "dir", content |-> <<>>]
RegularFile(c) == [kind |-> "file", content |-> c]

\* The contents files have when the server starts.
InitContents == {<<>>, <<97, 98>>}

InitFileStates == {Missing, Dir} \cup {RegularFile(c) : c \in InitContents}

\* Option<T>: None is <<>>, Some(v) is <<v>>.
None == <<>>
Some(v) == <<v>>

Min(a, b) == IF a <= b THEN a ELSE b

\* BufReader::new: the capacity of the reader's internal buffer (DEFAULT_BUF_SIZE).
DEFAULT_BUF_SIZE == 8192

\* The sizes fs::metadata may report for a directory.
DirSizes == {0, 4096}

\* path.extension()
Extension(p) == IF p = "/srv/a.TXT" THEN Some("TXT") ELSE None

\* str::to_lowercase on an extension.
ToLowercase(e) == IF e = "TXT" THEN "txt" ELSE e

\* mime_guess::get_mime_type_str
get_mime_type_str(e) == IF e = "txt" THEN Some("text/plain") ELSE None

\* Lines 139-144: the content type looked up from the extension.
ContentType(p) ==
    IF Extension(p) = None THEN None
    ELSE get_mime_type_str(ToLowercase(Extension(p)[1]))

\* ---------------------------------------------------------------- requests

\* EtagIfNoneMatch.etag: Option<EntityTag>; an EntityTag is (weak, tag).
EntityTag(w, t) == [weak |-> w, tag |-> t]

\* The validators clients send: none, or the fingerprint of "ab" as the server
\* sends it (respond_to, line 46, builds the tag with EntityTag::new(true, _)).
Validators == {None, Some(EntityTag(TRUE, EtagOf(<<97, 98>>)))}

\* io::Result<EtaggedFileResponse>
Err(kind, at) == [ok |-> FALSE, kind |-> kind, at |-> at]

Response(data, is_etag_match, etag, content_type, content_length) ==
    [ok |-> TRUE, data |-> data, is_etag_match |-> is_etag_match, etag |-> etag,
     content_type |-> content_type, content_length |-> content_length]

NoResult == [ok |-> FALSE, kind |-> "pending", at |-> ""]

\* What Response::build() starts from: status Ok, no header, no body.
ResponseBuild == [status |-> "Ok", headers |-> {}, body |-> None, chunk_size |-> 0]

\* Option::unwrap() of None in respond_to.
Panic == [status |-> "panic", headers |-> {}, body |-> None, chunk_size |-> 0]

Header(name, value) == <<name, value>>

\* A responder that sends the fingerprint with the not-modified status too.
RespondToTagged(r) ==
    LET tagged == [ResponseBuild EXCEPT
                      !.headers = {Header("ETag", EntityTag(TRUE, r.etag))}]
    IN  IF r.is_etag_match
        THEN [tagged EXCEPT !.status = "NotModified"]
        ELSE IF r.data = None THEN Panic
             ELSE [tagged EXCEPT !.body = r.data,
                                 !.chunk_size = FILE_RESPONSE_CHUNK_SIZE]

\* Lines 40-60: respond_to of an EtaggedFileResponse r.
RespondTo(r) ==
    IF r.is_etag_match
    THEN [ResponseBuild EXCEPT !.status = "NotModified"]
    ELSE IF r.data = None THEN Panic
         ELSE [ResponseBuild EXCEPT
                 !.headers =
                     {Header("ETag", EntityTag(TRUE, r.etag))}
                     \cup (IF r.content_type = None THEN {}
                           ELSE {Header("Content-Type", r.content_type[1])})
                     \cup (IF r.content_length = None THEN {}
                           ELSE {Header("Content-Length",
                                        ToString(r.content_length[1]))}),
                 !.body = r.data,
                 !.chunk_size = FILE_RESPONSE_CHUNK_SIZE]

\* The reader of the hashing pass: the open file (linked to its path, unlinked
\* with the content it had when it was removed, or a directory), the offset of
\* the next read of the file and the bytes buffered but not yet handed out.
NoReader == [state |-> "closed", orphan |-> <<>>, pos |-> 0, buf |-> <<>>]

\* The locals of one call of from(); locks counts its acquisitions of the
\* EtagMap mutex, hashed tells that it opened the file to hash it, and seen
\* is, during the hashing pass, the set of contents the file has held since
\* the pass opened it.
InitLoc == [path |-> "", etag |-> None, digest |-> DigestNew, reader |-> NoReader,
            is_etag_match |-> FALSE, file_size |-> None, content_type |-> None,
            locks |-> 0, hashed |-> FALSE, seen |-> {}]

VARIABLES
    fs,         \* canonical path -> what is at that path
    etag_map,   \* the HashMap inside the EtagMap: path string -> fingerprint
    holds,      \* handler -> it holds the MutexGuard of the EtagMap
    pc,         \* handler -> where it is in from()
    req,        \* handler -> the arguments of its call
    loc,        \* handler -> the locals of its call
    result,     \* handler -> what its last call returned
    computed,   \* canonical path -> hashing passes completed for it
    nreq,       \* requests started
    nmod        \* external modifications made

vars == <<fs, etag_map, holds, pc, req, loc, result, computed, nreq, nmod>>

NoRequest == [path |-> "", etag_if_none_match |-> None]

\* The places of a handler in from().
Places == {"idle", "is_file", "lock_get", "get", "open", "read", "lock_insert",
           "insert", "compare", "metadata", "open_body", "done"}

\* The shape of the state: the EtagMap maps path strings of regular files to
\* strings, and each handler is at one place of from().
TypeOK ==
    /\ DOMAIN fs = CanonPaths
    /\ \A p \in CanonPaths : fs[p].kind \in {"missing", "dir", "file"}
                                /\ fs[p].content \in Contents \cup HashInputs
    /\ DOMAIN etag_map \subseteq CanonPaths
    /\ \A p \in DOMAIN etag_map : etag_map[p] \in STRING
    /\ holds \in [Handlers -> BOOLEAN]
    /\ pc \in [Handlers -> Places]
    /\ \A h \in Handlers : /\ req[h].path \in InputPaths \cup {""}
                            /\ req[h].etag_if_none_match \in Validators
                            /\ loc[h].path \in CanonPaths \cup {""}
                            /\ result[h].ok \in BOOLEAN
    /\ \A p \in CanonPaths : computed[p] \in 0..MaxRequests
    /\ nreq \in 0..MaxRequests
    /\ nmod \in 0..MaxMods

EmptyMap == [p \in {} |-> ""]

\* EtaggedFileResponse::new_etag_map() and a server with no request in progress.
Init ==
    /\ fs \in [CanonPaths -> InitFileStates]
    /\ etag_map = EmptyMap
    /\ holds = [h \in Handlers |-> FALSE]
    /\ pc = [h \in Handlers |-> "idle"]
    /\ req = [h \in Handlers |-> NoRequest]
    /\ loc = [h \in Handlers |-> InitLoc]
    /\ result = [h \in Handlers |-> NoResult]
    /\ computed = [p \in CanonPaths |-> 0]
    /\ nreq = 0
    /\ nmod = 0

\* A lookup that never finds the key.
MapGetMiss(m, k) == None

\* HashMap::get(path_str).map(|etag| etag.clone())
MapGet(m, k) == IF k \in DOMAIN m THEN Some(m[k]) ELSE None

\* An insert that replaces the whole map by the one new entry.
MapInsertOnly(m, k, v) == [q \in {k} |-> v]

\* HashMap::insert(path_string, cloned_etag)
MapInsert(m, k, v) == [q \in DOMAIN m \cup {k} |-> IF q = k THEN v ELSE m[q]]

\* The handler returns r.
Return(h, r) ==
    /\ pc' = [pc EXCEPT ![h] = "done"]
    /\ result' = [result EXCEPT ![h] = r]

\* ------------------------------------------------- EtaggedFileResponse::from

\* Lines 65-69: a request handler calls from(etag_map, etag_if_none_match,
\* path), which begins with path.as_ref().canonicalize().
From(h, p, v) ==
    /\ pc[h] \in {"idle", "done"}
    /\ nreq < MaxRequests
    /\ nreq' = nreq + 1
    /\ req' = [req EXCEPT ![h] = [path |-> p, etag_if_none_match |-> v]]
    /\ IF fs[Resolve(p)].kind = "missing"
       THEN /\ Return(h, Err("NotFound", "canonicalize"))
            /\ loc' = [loc EXCEPT ![h] = InitLoc]
       ELSE /\ loc' = [loc EXCEPT ![h] = [InitLoc EXCEPT !.path = Resolve(p)]]
            /\ pc' = [pc EXCEPT ![h] = "is_file"]
            /\ result' = [result EXCEPT ![h] = NoResult]
    /\ UNCHANGED <<fs, etag_map, holds, computed, nmod>>

\* The regular-file check left out.
IsFileSkipped(h) ==
    /\ pc[h] = "is_file"
    /\ pc' = [pc EXCEPT ![h] = "lock_get"]
    /\ UNCHANGED <<fs, etag_map, holds, req, loc, result, computed, nreq, nmod>>

\* Lines 71-75: if !path.is_file() { return Err(InvalidInput) }
IsFile(h) ==
    /\ pc[h] = "is_file"
    /\ IF fs[loc[h].path].kind # "file"
       THEN Return(h, Err("InvalidInput", "is_file"))
       ELSE /\ pc' = [pc EXCEPT ![h] = "lock_get"]
            /\ UNCHANGED result
    /\ UNCHANGED <<fs, etag_map, holds, req, loc, computed, nreq, nmod>>

\* A lock that does not wait for the holder to release it.
LockNoWait(h, next) ==
    /\ holds' = [holds EXCEPT ![h] = TRUE]
    /\ loc' = [loc EXCEPT ![h].locks = @ + 1]
    /\ pc' = [pc EXCEPT ![h] = next]
    /\ UNCHANGED <<fs, etag_map, req, result, computed, nreq, nmod>>

\* Mutex::lock(): blocks until no handler holds the guard.
Lock(h, next) ==
    /\ \A g \in Handlers : ~holds[g]
    /\ holds' = [holds EXCEPT ![h] = TRUE]
    /\ loc' = [loc EXCEPT ![h].locks = @ + 1]
    /\ pc' = [pc EXCEPT ![h] = next]
    /\ UNCHANGED <<fs, etag_map, req, result, computed, nreq, nmod>>

\* Line 77: etag_map.lock().unwrap()
LockGet(h) ==
    /\ pc[h] = "lock_get"
    /\ Lock(h, "get")

\* A lookup whose guard lives on after the statement.
GetKeepsGuard(h) ==
    /\ pc[h] = "get"
    /\ loc' = [loc EXCEPT ![h].etag = MapGet(etag_map, loc[h].path)]
    /\ pc' = [pc EXCEPT ![h] = IF MapGet(etag_map, loc[h].path) = None
                                THEN "open" ELSE "compare"]
    /\ UNCHANGED <<fs, etag_map, holds, req, result, computed, nreq, nmod>>

\* Lines 77-81: .get(path_str).map(|etag| etag.clone()); the guard is dropped
\* at the end of the statement; a hit skips the hashing.
Get(h) ==
    /\ pc[h] = "get"
    /\ loc' = [loc EXCEPT ![h].etag = MapGet(etag_map, loc[h].path)]
    /\ holds' = [holds EXCEPT ![h] = FALSE]
    /\ pc' = [pc EXCEPT ![h] = IF MapGet(etag_map, loc[h].path) = None
                                THEN "open" ELSE "compare"]
    /\ UNCHANGED <<fs, etag_map, req, result, computed, nreq, nmod>>

\* Lines 82-88: a new digest, File::open(&path)?, BufReader::new(read)
Open(h) ==
    /\ pc[h] = "open"
    /\ \E fault \in BOOLEAN :
         IF fault \/ fs[loc[h].path].kind = "missing"
         THEN /\ Return(h, Err(IF fault THEN "Other" ELSE "NotFound", "open"))
              /\ loc' = [loc EXCEPT ![h].hashed = TRUE]
         ELSE /\ loc' = [loc EXCEPT ![h].digest = DigestNew,
                                    ![h].hashed = TRUE,
                                    ![h].reader =
                                        [state |-> IF fs[loc[h].path].kind = "dir"
                                                   THEN "dir" ELSE "linked",
                                         orphan |-> <<>>, pos |-> 0, buf |-> <<>>],
                                    ![h].seen =
                                        IF fs[loc[h].path].kind = "dir" THEN {}
                                        ELSE {fs[loc[h].path].content}]
              /\ pc' = [pc EXCEPT ![h] = "read"]
              /\ UNCHANGED result
    /\ UNCHANGED <<fs, etag_map, holds, req, computed, nreq, nmod>>

\* The bytes of the file a reader has open.
FileBytes(r, p) == IF r.state = "linked" THEN fs[p].content ELSE r.orphan

\* Lines 104-110: sum64, format!("{:X}"), and the reader and digest go away.
Finish(l) == [l EXCEPT !.etag = Some(FormatX(sum64(l.digest))),
                       !.digest = DigestNew, !.reader = NoReader, !.seen = {}]

\* A loop that takes a read shorter than the buffer for the last one.
ReadChunkShortIsEof(l, n) ==
    LET r == l.reader
        all == FileBytes(r, l.path)
        buf == IF r.buf # <<>> THEN r.buf ELSE SubSeq(all, r.pos + 1, r.pos + n)
        c == Min(FILE_RESPONSE_CHUNK_SIZE, Len(buf))
    IN  Finish([l EXCEPT !.digest = DigestWrite(l.digest, SubSeq(buf, 1, c))])

\* reader.read(&mut buffer) with n bytes arriving from the file when the
\* reader's buffer is empty: c bytes are copied out and written to the digest.
ReadChunk(l, n) ==
    LET r == l.reader
        all == FileBytes(r, l.path)
        buf == IF r.buf # <<>> THEN r.buf ELSE SubSeq(all, r.pos + 1, r.pos + n)
        pos == IF r.buf # <<>> THEN r.pos ELSE r.pos + n
        c == Min(FILE_RESPONSE_CHUNK_SIZE, Len(buf))
    IN  IF c = 0 THEN Finish(l)
        ELSE [l EXCEPT !.digest = DigestWrite(l.digest, SubSeq(buf, 1, c)),
                       !.reader = [r EXCEPT !.pos = pos,
                                            !.buf = SubSeq(buf, c + 1, Len(buf))]]

\* The byte counts one read of the file may deliver at the reader's offset:
\* 0 at the end of the file, else any count up to what is left and fits.
ReadSizes(r, p) ==
    LET left == Len(FileBytes(r, p)) - r.pos
    IN  IF r.buf # <<>> \/ left <= 0 THEN {0}
        ELSE 1..Min(DEFAULT_BUF_SIZE, left)

\* A loop that, when a read fails, stores the fingerprint of what it has read.
ReadCachesPartial(h) ==
    /\ pc[h] = "read"
    /\ \E fault \in BOOLEAN :
         IF loc[h].reader.buf = <<>> /\ (fault \/ loc[h].reader.state = "dir")
         THEN /\ Return(h, Err("Other", "read"))
              /\ loc' = [loc EXCEPT ![h].reader = NoReader, ![h].digest = DigestNew,
                                    ![h].seen = {}]
              /\ etag_map' = MapInsert(etag_map, loc[h].path,
                                       FormatX(sum64(loc[h].digest)))
              /\ UNCHANGED computed
         ELSE \E n \in ReadSizes(loc[h].reader, loc[h].path) :
              /\ loc' = [loc EXCEPT ![h] = ReadChunk(loc[h], n)]
              /\ IF loc'[h].reader = NoReader
                 THEN /\ pc' = [pc EXCEPT ![h] = "lock_insert"]
                      /\ computed' = [computed EXCEPT ![loc[h].path] = @ + 1]
                 ELSE UNCHANGED <<pc, computed>>
              /\ UNCHANGED <<result, etag_map>>
    /\ UNCHANGED <<fs, holds, req, nreq, nmod>>

\* Lines 90-110: one iteration of the hashing loop.
Read(h) ==
    /\ pc[h] = "read"
    /\ \E fault \in BOOLEAN :
         IF loc[h].reader.buf = <<>> /\ (fault \/ loc[h].reader.state = "dir")
         THEN /\ Return(h, Err("Other", "read"))
              /\ loc' = [loc EXCEPT ![h].reader = NoReader, ![h].digest = DigestNew,
                                    ![h].seen = {}]
              /\ UNCHANGED computed
         ELSE \E n \in ReadSizes(loc[h].reader, loc[h].path) :
              /\ loc' = [loc EXCEPT ![h] = ReadChunk(loc[h], n)]
              /\ IF loc'[h].reader = NoReader
                 THEN /\ pc' = [pc EXCEPT ![h] = "lock_insert"]
                      /\ computed' = [computed EXCEPT ![loc[h].path] = @ + 1]
                 ELSE UNCHANGED <<pc, computed>>
              /\ UNCHANGED result
    /\ UNCHANGED <<fs, etag_map, holds, req, nreq, nmod>>

\* Line 112: etag_map.lock().unwrap()
LockInsert(h) ==
    /\ pc[h] = "lock_insert"
    /\ Lock(h, "insert")

\* A call that leaves the map as it is at line 112, keeping the fingerprint
\* to itself until the response is built.
InsertSkipped(h) ==
    /\ pc[h] = "insert"
    /\ holds' = [holds EXCEPT ![h] = FALSE]
    /\ pc' = [pc EXCEPT ![h] = "compare"]
    /\ UNCHANGED <<fs, etag_map, req, loc, result, computed, nreq, nmod>>

\* An insert under the path as the request gave it.
InsertByGivenPath(h) ==
    /\ pc[h] = "insert"
    /\ etag_map' = MapInsert(etag_map, req[h].path, loc[h].etag[1])
    /\ holds' = [holds EXCEPT ![h] = FALSE]
    /\ pc' = [pc EXCEPT ![h] = "compare"]
    /\ UNCHANGED <<fs, req, loc, result, computed, nreq, nmod>>

\* Lines 112-114: .insert(path_string, cloned_etag); the guard is dropped.
Insert(h) ==
    /\ pc[h] = "insert"
    /\ etag_map' = MapInsert(etag_map, loc[h].path, loc[h].etag[1])
    /\ holds' = [holds EXCEPT ![h] = FALSE]
    /\ pc' = [pc EXCEPT ![h] = "compare"]
    /\ UNCHANGED <<fs, req, loc, result, computed, nreq, nmod>>

\* A comparison that takes a request without validator for a match.
IsEtagMatchAbsent(v, etag) == IF v = None THEN TRUE ELSE v[1].tag = etag

\* Lines 118-121: the client's tag against the fingerprint.
IsEtagMatch(v, etag) == IF v = None THEN FALSE ELSE v[1].tag = etag

\* A comparison against the fingerprint of what the file holds now.
CompareFresh(h) ==
    /\ pc[h] = "compare"
    /\ LET m == IsEtagMatch(req[h].etag_if_none_match, EtagOf(fs[loc[h].path].content))
       IN  /\ loc' = [loc EXCEPT ![h].is_etag_match = m]
           /\ IF m
              THEN Return(h, Response(None, TRUE, loc[h].etag[1], None, None))
              ELSE /\ pc' = [pc EXCEPT ![h] = "metadata"]
                   /\ UNCHANGED result
    /\ UNCHANGED <<fs, etag_map, holds, req, computed, nreq, nmod>>

\* Lines 118-131: a match returns the not-modified response.
Compare(h) ==
    /\ pc[h] = "compare"
    /\ LET m == IsEtagMatch(req[h].etag_if_none_match, loc[h].etag[1])
       IN  /\ loc' = [loc EXCEPT ![h].is_etag_match = m]
           /\ IF m
              THEN Return(h, Response(None, TRUE, loc[h].etag[1], None, None))
              ELSE /\ pc' = [pc EXCEPT ![h] = "metadata"]
                   /\ UNCHANGED result
    /\ UNCHANGED <<fs, etag_map, holds, req, computed, nreq, nmod>>

\* Lines 132-144: fs::metadata(&path) and the content type.
Metadata(h) ==
    /\ pc[h] = "metadata"
    /\ \E fault \in BOOLEAN, dirsize \in DirSizes :
         IF fault \/ fs[loc[h].path].kind = "missing"
         THEN /\ Return(h, Err(IF fault THEN "Other" ELSE "NotFound", "metadata"))
              /\ UNCHANGED loc
         ELSE /\ loc' = [loc EXCEPT
                    ![h].file_size = Some(IF fs[loc[h].path].kind = "dir" THEN dirsize
                                          ELSE Len(fs[loc[h].path].content)),
                    ![h].content_type = ContentType(loc[h].path)]
              /\ pc' = [pc EXCEPT ![h] = "open_body"]
              /\ UNCHANGED result
    /\ UNCHANGED <<fs, etag_map, holds, req, computed, nreq, nmod>>

\* The body stream: the file opened at path p, with the bytes it has at that
\* moment and the offset of its next read; nothing is read from it here.
\* A body stream that from() has read to its end.
BodyStreamRead(p) ==
    [path |-> p, kind |-> fs[p].kind, bytes |-> fs[p].content,
     pos |-> Len(fs[p].content)]

BodyStream(p) ==
    [path |-> p, kind |-> fs[p].kind, bytes |-> fs[p].content, pos |-> 0]

\* Lines 146-154: File::open(&path)? and the full response.
OpenBody(h) ==
    /\ pc[h] = "open_body"
    /\ \E fault \in BOOLEAN :
         IF fault \/ fs[loc[h].path].kind = "missing"
         THEN Return(h, Err(IF fault THEN "Other" ELSE "NotFound", "open_body"))
         ELSE Return(h, Response(Some(BodyStream(loc[h].path)), FALSE, loc[h].etag[1],
                                 loc[h].content_type, loc[h].file_size))
    /\ UNCHANGED <<fs, etag_map, holds, req, loc, computed, nreq, nmod>>

\* ------------------------------------------------- the rest of the system

\* A hashing pass in progress over the file at p has seen the file hold c.
Sees(l, p, c) ==
    IF l.path = p /\ l.reader.state = "linked"
    THEN [l EXCEPT !.seen = @ \cup {c}]
    ELSE l

\* Another process overwrites a file in place.
WriteFile(p, c) ==
    /\ nmod < MaxMods
    /\ fs[p].kind = "file"
    /\ fs[p].content # c
    /\ fs' = [fs EXCEPT ![p] = RegularFile(c)]
    /\ loc' = [h \in Handlers |-> Sees(loc[h], p, c)]
    /\ nmod' = nmod + 1
    /\ UNCHANGED <<etag_map, holds, pc, req, result, computed, nreq>>

\* A reader that finds nothing more to read once the file is removed.
UnlinkTruncates(l, p) ==
    IF l.path = p /\ l.reader.state = "linked"
    THEN [l EXCEPT !.reader.state = "unlinked", !.reader.orphan = <<>>]
    ELSE l

\* A reader that has the removed file open keeps the file, now without a path.
Unlink(l, p) ==
    IF l.path = p /\ l.reader.state = "linked"
    THEN [l EXCEPT !.reader.state = "unlinked", !.reader.orphan = fs[p].content]
    ELSE l

\* Another process removes a file.
RemoveFile(p) ==
    /\ nmod < MaxMods
    /\ fs[p].kind = "file"
    /\ fs' = [fs EXCEPT ![p] = Missing]
    /\ loc' = [h \in Handlers |-> Unlink(loc[h], p)]
    /\ nmod' = nmod + 1
    /\ UNCHANGED <<etag_map, holds, pc, req, result, computed, nreq>>

\* Another process creates a file or a directory where there was nothing.
CreateFile(p, c) ==
    /\ nmod < MaxMods
    /\ fs[p].kind = "missing"
    /\ fs' = [fs EXCEPT ![p] = RegularFile(c)]
    /\ nmod' = nmod + 1
    /\ UNCHANGED <<etag_map, holds, pc, req, loc, result, computed, nreq>>

MakeDir(p) ==
    /\ nmod < MaxMods
    /\ fs[p].kind = "missing"
    /\ fs' = [fs EXCEPT ![p] = Dir]
    /\ nmod' = nmod + 1
    /\ UNCHANGED <<etag_map, holds, pc, req, loc, result, computed, nreq>>

\* -------------------------------------------------------- specifications

\* One step of from() in handler h.
Step(h) ==
    \/ IsFile(h)
    \/ LockGet(h)
    \/ Get(h)
    \/ Open(h)
    \/ Read(h)
    \/ LockInsert(h)
    \/ Insert(h)
    \/ Compare(h)
    \/ Metadata(h)
    \/ OpenBody(h)

Modify ==
    \/ \E p \in CanonPaths, c \in Contents : WriteFile(p, c)
    \/ \E p \in CanonPaths : RemoveFile(p)
    \/ \E p \in CanonPaths, c \in Contents : CreateFile(p, c)
    \/ \E p \in CanonPaths : MakeDir(p)

\* No request is in progress.
Quiet == \A g \in Handlers : pc[g] \in {"idle", "done"}

\* Concurrent handlers, and files that change under them.
Next ==
    \/ \E h \in Handlers, p \in InputPaths, v \in Validators : From(h, p, v)
    \/ \E h \in Handlers : Step(h)
    \/ Modify

Spec == Init /\ [][Next]_vars

\* Concurrent handlers over files that do not change.
NextStatic ==
    \/ \E h \in Handlers, p \in InputPaths, v \in Validators : From(h, p, v)
    \/ \E h \in Handlers : Step(h)

SpecStatic == Init /\ [][NextStatic]_vars

\* One request at a time over files that do not change.
NextSeq ==
    \/ \E h \in Handlers, p \in InputPaths, v \in Validators : Quiet /\ From(h, p, v)
    \/ \E h \in Handlers : Step(h)

SpecSeq == Init /\ [][NextSeq]_vars

\* One request at a time, and files that change between and during requests.
NextSeqMod ==
    \/ \E h \in Handlers, p \in InputPaths, v \in Validators : Quiet /\ From(h, p, v)
    \/ \E h \in Handlers : Step(h)
    \/ Modify

SpecSeqMod == Init /\ [][NextSeqMod]_vars

\* A server over regular files of every content in HashInputs.
InitHash ==
    /\ fs \in [CanonPaths -> {RegularFile(c) : c \in HashInputs}]
    /\ etag_map = EmptyMap
    /\ holds = [h \in Handlers |-> FALSE]
    /\ pc = [h \in Handlers |-> "idle"]
    /\ req = [h \in Handlers |-> NoRequest]
    /\ loc = [h \in Handlers |-> InitLoc]
    /\ result = [h \in Handlers |-> NoResult]
    /\ computed = [p \in CanonPaths |-> 0]
    /\ nreq = 0
    /\ nmod = 0

\* Requests without validator, one at a time, over those files: each hashes
\* its file with reads of any sizes, or finds the fingerprint in the map.
NextHash ==
    \/ \E h \in Handlers, p \in InputPaths : Quiet /\ From(h, p, None)
    \/ \E h \in Handlers : Step(h)

SpecHash == InitHash /\ [][NextHash]_vars

\* A server where one path is a two-byte file and the other an empty file or
\* a directory.
InitLive ==
    /\ Init
    /\ fs["/srv/b"] = RegularFile(<<97, 98>>)
    /\ fs["/srv/a.TXT"] \in {Dir, RegularFile(<<>>)}

\* Concurrent handlers over files that do not change, each handler a thread
\* that is scheduled again and again: a step of from() that stays possible is
\* taken. Nothing obliges a new request to arrive.
SpecLive ==
    /\ InitLive
    /\ [][NextStatic]_vars
    /\ \A h \in Handlers : WF_vars(Step(h))

\* ------------------------------------------------------------------ claims

\* The handlers whose call has returned a response.
Responded == {h \in Handlers : pc[h] = "done" /\ result[h].ok}

\* The handlers whose call has returned the error kind at step at.
Failed(kind, at) ==
    {h \in Handlers : pc[h] = "done" /\ result[h] = Err(kind, at)}

\* C1: a call that succeeds answers not-modified (no body) exactly when the
\* client sent a validator whose tag equals the fingerprint the call resolved
\* (read from the map, else freshly computed); otherwise it answers in full
\* with that fingerprint; without a validator it never answers not-modified.
C1_ValidationCorrect ==
    \A h \in Responded :
        LET v == req[h].etag_if_none_match
            r == result[h]
        IN  /\ loc[h].etag # None
            /\ r.etag = loc[h].etag[1]
            /\ r.is_etag_match = (v # None /\ v[1].tag = r.etag)
            /\ r.is_etag_match = (r.data = None)
            /\ v = None => ~r.is_etag_match

\* One call answered not-modified, another answered in full to a validator
\* that differs from the fingerprint.
C1_Witness ==
    \E h, g \in Responded :
        /\ result[h].is_etag_match
        /\ ~result[g].is_etag_match
        /\ req[g].etag_if_none_match # None

\* C2: with one request at a time and files that do not change, every call
\* for a path returns the fingerprint of the file's content, the file is
\* hashed to the end at most once, and a call hashes only when the map has no
\* entry for the path.
C2_CacheConsistent ==
    /\ \A p \in CanonPaths : computed[p] <= 1
    /\ \A h \in Responded : result[h].etag = EtagOf(fs[loc[h].path].content)
    /\ \A h \in Handlers :
           pc[h] \in {"open", "read", "lock_insert", "insert"}
               => loc[h].path \notin DOMAIN etag_map

\* Two calls for one path have returned: one hashed the file, the other took
\* the fingerprint from the map.
C2_Witness ==
    \E h, g \in Responded :
        /\ loc[h].path = loc[g].path
        /\ loc[h].hashed
        /\ ~loc[g].hashed
        /\ computed[loc[h].path] = 1

\* C3: once a call has returned a fingerprint for a path, every call for
\* that path returns the same fingerprint: two returned calls for one path
\* never differ.
C3_FingerprintNeverChanges ==
    \A h, g \in Responded :
        loc[h].path = loc[g].path => result[h].etag = result[g].etag

\* C4: with one request at a time and files that change, an entry of the map
\* is never changed or removed; the validator is compared with the stored
\* fingerprint, which is the one a response carries; and the content length
\* and the body are those of the file at the time of the request.
C4_StalePolicy ==
    [][/\ \A p \in DOMAIN etag_map :
              p \in DOMAIN etag_map' /\ etag_map'[p] = etag_map[p]
       /\ \A h \in Handlers :
            /\ pc[h] = "compare" /\ pc'[h] # "compare"
                 => /\ loc[h].path \in DOMAIN etag_map
                    /\ LET v == req[h].etag_if_none_match
                       IN  (pc'[h] = "done") =
                               (v # None /\ v[1].tag = etag_map[loc[h].path])
                    /\ pc'[h] = "done"
                         => result'[h] = Response(None, TRUE, etag_map[loc[h].path],
                                                  None, None)
            /\ pc[h] = "metadata" /\ pc'[h] = "open_body"
                      /\ fs[loc[h].path].kind = "file"
                 => loc'[h].file_size = Some(Len(fs[loc[h].path].content))
            /\ pc[h] = "open_body" /\ pc'[h] = "done" /\ result'[h].ok
                 => /\ result'[h].etag = etag_map[loc[h].path]
                    /\ ~result'[h].is_etag_match
                    /\ result'[h].content_length = loc[h].file_size
                    /\ result'[h].data[1].bytes = fs[loc[h].path].content]_vars

\* A full response that carries the fingerprint of the old content with the
\* length and the bytes of the new content.
C4_Witness ==
    \E h \in Responded :
        /\ nmod > 0
        /\ ~loc[h].hashed
        /\ ~result[h].is_etag_match
        /\ result[h].data[1].bytes = fs[loc[h].path].content
        /\ fs[loc[h].path].kind = "file"
        /\ result[h].content_length = Some(Len(fs[loc[h].path].content))
        /\ result[h].etag # EtagOf(fs[loc[h].path].content)
        /\ result[h].etag = etag_map[loc[h].path]

\* C5: a handler holds the lock of the map exactly while it is at the lookup
\* or at the insert, and at most one handler holds it.
C5_LockDiscipline ==
    /\ \A h \in Handlers : holds[h] = (pc[h] \in {"get", "insert"})
    /\ Cardinality({h \in Handlers : holds[h]}) <= 1

\* One handler holds the lock for its insert while another reads the file it
\* is hashing.
C5_Witness ==
    \E h, g \in Handlers :
        /\ holds[h] /\ pc[h] = "insert"
        /\ pc[g] = "read" /\ loc[g].reader.pos > 0

\* C6: with files that do not change, every call that returns, however the
\* calls interleave, returns the fingerprint of its file's content, and the
\* map holds that fingerprint for the path.
C6_RaceHarmless ==
    /\ \A h \in Responded :
           /\ result[h].etag = EtagOf(fs[loc[h].path].content)
           /\ loc[h].path \in DOMAIN etag_map
    /\ \A p \in DOMAIN etag_map : etag_map[p] = EtagOf(fs[p].content)

\* Two calls for one uncached path both hashed the file to the end, and both
\* returned.
C6_Witness ==
    \E h, g \in Responded :
        /\ h # g
        /\ loc[h].path = loc[g].path
        /\ loc[h].hashed /\ loc[g].hashed
        /\ computed[loc[h].path] = 2

\* C7: with files that do not change, the entry of a path changes only by
\* the insert of a handler working on that path, which sets it to the
\* fingerprint of that path's file; every other entry stays as it is, no
\* other key appears, and every call returns the fingerprint of its own file.
C7_NoCrossContamination ==
    [][/\ \A p \in CanonPaths :
              MapGet(etag_map', p) # MapGet(etag_map, p)
                  => /\ MapGet(etag_map', p) = Some(EtagOf(fs[p].content))
                     /\ \E h \in Handlers :
                            /\ pc[h] = "insert" /\ pc'[h] = "compare"
                            /\ loc[h].path = p
       /\ \A h \in Handlers :
              pc'[h] = "done" /\ result'[h].ok
                  => result'[h].etag = EtagOf(fs[loc'[h].path].content)]_vars

\* Calls on two paths with different contents have both hashed and returned,
\* and the map holds each path's own fingerprint.
C7_Witness ==
    \E h, g \in Responded :
        /\ loc[h].path # loc[g].path
        /\ loc[h].hashed /\ loc[g].hashed
        /\ DOMAIN etag_map = {loc[h].path, loc[g].path}
        /\ etag_map[loc[h].path] = result[h].etag
        /\ etag_map[loc[g].path] = result[g].etag
        /\ result[h].etag # result[g].etag

\* C8: an entry of the map, once present, is never removed and its value is
\* never replaced by a different one.
C8_MapMonotone ==
    [][\A p \in DOMAIN etag_map :
           p \in DOMAIN etag_map' /\ etag_map'[p] = etag_map[p]]_vars

\* C9: a call whose path does not resolve returns NotFound, and a call whose
\* resolved path is not a regular file returns InvalidInput; either returns
\* before the lock of the map is taken and leaves the map as it is.
C9_ErrorsBeforeCache ==
    [][\A h \in Handlers :
         /\ \A p \in InputPaths, v \in Validators :
                From(h, p, v) /\ fs[Resolve(p)].kind = "missing"
                    => /\ pc'[h] = "done"
                       /\ result'[h] = Err("NotFound", "canonicalize")
                       /\ loc'[h].locks = 0
                       /\ etag_map' = etag_map
         /\ pc[h] = "is_file" /\ pc'[h] # "is_file"
                  /\ fs[loc[h].path].kind # "file"
                    => /\ pc'[h] = "done"
                       /\ result'[h] = Err("InvalidInput", "is_file")
                       /\ loc'[h].locks = 0
                       /\ etag_map' = etag_map]_vars

\* A call for a cached path, with a validator equal to the cached
\* fingerprint, has returned the error of a path that is no regular file.
C9_Witness ==
    \E h \in Failed("NotFound", "canonicalize") \cup Failed("InvalidInput", "is_file") :
        LET p == Resolve(req[h].path)
            v == req[h].etag_if_none_match
        IN  /\ p \in DOMAIN etag_map
            /\ v # None
            /\ v[1].tag = etag_map[p]
            /\ loc[h].locks = 0

\* C10: a call that fails at the open or at a read of the hashing pass
\* returns an error, has taken the lock for the lookup only, and leaves the
\* map as it is; a hashing pass starts with a new digest at offset 0.
C10_NoPartialFingerprint ==
    [][\A h \in Handlers :
         /\ pc[h] \in {"open", "read"} /\ pc'[h] = "done"
               => /\ ~result'[h].ok
                  /\ result'[h].at = pc[h]
                  /\ loc'[h].locks = 1
                  /\ etag_map' = etag_map
         /\ pc[h] = "open" /\ pc'[h] = "read"
               => /\ loc'[h].digest = DigestNew
                  /\ loc'[h].reader.pos = 0
                  /\ loc'[h].reader.buf = <<>>]_vars

\* A call has failed at a read, the map has no entry for its path, and
\* another call for the path has hashed the file from the start and is about
\* to store the fingerprint of the whole content.
C10_Witness ==
    \E h \in Failed("Other", "read"), g \in Handlers :
        /\ loc[g].path = loc[h].path
        /\ loc[h].path \notin DOMAIN etag_map
        /\ pc[g] = "lock_insert"
        /\ Len(fs[loc[h].path].content) > 0
        /\ loc[g].etag = Some(EtagOf(fs[loc[h].path].content))

\* C11: a not-modified response has no body, no content type, no content
\* length, and respond_to gives it the not-modified status and no header at
\* all (no fingerprint header); the call that returns it goes from the
\* comparison straight to its return, with neither the metadata query nor
\* the open for the body, and when the path was cached it has not opened the
\* file to hash it either and has taken the lock once.
C11_MatchedIsBare ==
    [][\A h \in Handlers :
         pc[h] # "done" /\ pc'[h] = "done" /\ result'[h].ok
                        /\ result'[h].is_etag_match
            => /\ pc[h] = "compare"
               /\ result'[h].data = None
               /\ result'[h].content_type = None
               /\ result'[h].content_length = None
               /\ RespondTo(result'[h]).status = "NotModified"
               /\ RespondTo(result'[h]).headers = {}
               /\ RespondTo(result'[h]).body = None
               /\ loc'[h].file_size = None
               /\ loc'[h].content_type = None
               /\ fs' = fs
               /\ ~loc'[h].hashed => /\ loc'[h].locks = 1
                                     /\ loc'[h].reader = NoReader
                                     /\ computed' = computed]_vars

\* A call for a cached path has answered not-modified without hashing, while
\* the call that cached the path answered in full.
C11_Witness ==
    \E h \in Responded, g \in Responded :
        /\ result[h].is_etag_match
        /\ ~loc[h].hashed
        /\ loc[h].locks = 1
        /\ RespondTo(result[h]).status = "NotModified"
        /\ loc[g].path = loc[h].path
        /\ loc[g].hashed
        /\ RespondTo(result[g]).status = "Ok"

\* C12: every response from() returns is either not-modified with data,
\* content_type and content_length absent, or not not-modified with a body
\* stream, the fingerprint the call resolved, and the content length that this
\* call's metadata query returned; respond_to of it never unwraps a missing
\* body and hands on the stream, which from() has opened and not read.
C12_TwoShapes ==
    \A h \in Responded :
        LET r == result[h]
        IN  /\ \/ /\ r.is_etag_match
                  /\ r.data = None
                  /\ r.content_type = None
                  /\ r.content_length = None
               \/ /\ ~r.is_etag_match
                  /\ r.data # None
                  /\ r.data[1].path = loc[h].path
                  /\ r.data[1].pos = 0
                  /\ r.etag = loc[h].etag[1]
                  /\ r.content_length # None
                  /\ loc[h].file_size # None
                  /\ r.content_length = loc[h].file_size
                  /\ RespondTo(r).body = r.data
                  /\ Header("Content-Length", ToString(loc[h].file_size[1]))
                         \in RespondTo(r).headers
            /\ RespondTo(r) # Panic

\* A full response for the two-byte text file: the stream at offset 0, and
\* respond_to gives the headers ETag, Content-Type and Content-Length: 2.
C12_Witness ==
    \E h \in Responded :
        LET r == result[h]
        IN  /\ ~r.is_etag_match
            /\ r.data[1].pos = 0
            /\ r.data[1].bytes = <<97, 98>>
            /\ r.content_length = Some(2)
            /\ RespondTo(r).headers =
                   {Header("ETag", EntityTag(TRUE, EtagOf(<<97, 98>>))),
                    Header("Content-Type", "text/plain"),
                    Header("Content-Length", "2")}
            /\ RespondTo(r).chunk_size = 4096

\* The fingerprints a state holds: those in the map, those the calls in
\* progress have resolved, and those in the responses returned.
AllFingerprints ==
    {etag_map[p] : p \in DOMAIN etag_map}
        \cup {loc[h].etag[1] : h \in {g \in Handlers : loc[g].etag # None}}
        \cup {result[h].etag : h \in Responded}

HexChars == {"0", "1", "2", "3", "4", "5", "6", "7", "8", "9",
             "A", "B", "C", "D", "E", "F"}

IsUpperHex(s) == \A i \in 1..Len(s) : SubSeq(s, i, i) \in HexChars

\* C13: every fingerprint computed, stored or returned is an uppercase
\* hexadecimal string of one fixed width: any two fingerprints have the same
\* length, whatever the checksum value, and only the characters 0-9 and A-F.
C13_FixedWidthHex ==
    \A f \in AllFingerprints, g \in AllFingerprints :
        /\ Len(f) = Len(g)
        /\ IsUpperHex(f)

\* The handlers whose call is for a file that holds no byte.
OnEmptyFile ==
    {h \in Handlers : /\ loc[h].path # ""
                      /\ fs[loc[h].path] = RegularFile(<<>>)}

\* C14: a call for a zero-byte regular file fails only when the file system
\* reports an I/O error; its hashing loop ends at its first read; the
\* fingerprint is the non-empty rendering "0" of the checksum of the empty
\* input; it is stored in the map; and the call, made without validator,
\* returns a full response with content length 0.
C14_EmptyFile ==
    /\ [](\A h \in OnEmptyFile :
            /\ pc[h] = "read" => loc[h].reader.pos = 0 /\ loc[h].digest = DigestNew
            /\ pc[h] = "done" /\ ~result[h].ok => result[h].kind = "Other"
            /\ loc[h].etag # None
                  => /\ loc[h].etag[1] = EtagOf(<<>>)
                     /\ loc[h].etag[1] = "0"
                     /\ Len(loc[h].etag[1]) > 0
            /\ pc[h] \in {"compare", "metadata", "open_body"}
                  => etag_map[loc[h].path] = "0"
            /\ h \in Responded /\ req[h].etag_if_none_match = None
                  => /\ ~result[h].is_etag_match
                     /\ result[h].etag = "0"
                     /\ result[h].content_length = Some(0)
                     /\ result[h].data # None
                     /\ etag_map[loc[h].path] = "0")
    /\ [][\A h \in OnEmptyFile :
            pc[h] = "read" /\ loc'[h] # loc[h]
               => \/ pc'[h] = "lock_insert" /\ loc'[h].etag = Some("0")
                  \/ pc'[h] = "done" /\ result'[h] = Err("Other", "read")]_vars

\* A call without validator for a zero-byte file has hashed it, stored "0",
\* and returned the full response with content length 0.
C14_Witness ==
    \E h \in OnEmptyFile \cap Responded :
        /\ req[h].etag_if_none_match = None
        /\ loc[h].hashed
        /\ computed[loc[h].path] = 1
        /\ etag_map[loc[h].path] = "0"
        /\ result[h].etag = "0"
        /\ result[h].content_length = Some(0)
        /\ result[h].data[1].bytes = <<>>

\* C15: the fingerprint of a hashing pass is a function of the bytes of the
\* file alone. Whatever sizes the reads had, the digest of a pass in progress
\* is the digest of one write of the bytes consumed so far, the fingerprint
\* the pass ends with is the fingerprint of one write of the whole content,
\* and so is every stored fingerprint: files of equal content have the same
\* fingerprint, whatever their path, the caller, and the map at the time.
C15_BytesOnly ==
    /\ \A h \in Handlers :
          LET c == fs[loc[h].path].content
              r == loc[h].reader
          IN  /\ pc[h] = "read"
                    => loc[h].digest =
                           DigestWrite(DigestNew, SubSeq(c, 1, r.pos - Len(r.buf)))
              /\ loc[h].hashed /\ loc[h].etag # None
                    => loc[h].etag[1] = EtagOf(c)
    /\ \A p \in DOMAIN etag_map : etag_map[p] = EtagOf(fs[p].content)
    /\ \A p \in DOMAIN etag_map, q \in DOMAIN etag_map :
          fs[p].content = fs[q].content => etag_map[p] = etag_map[q]
    /\ \A h \in Handlers, g \in Handlers :
          /\ loc[h].etag # None /\ loc[g].etag # None
          /\ fs[loc[h].path].content = fs[loc[g].path].content
          => loc[h].etag = loc[g].etag

\* Two files of the same three bytes: the fingerprint of one is in the map,
\* computed by one handler, and another handler's pass over the other has
\* consumed one byte with a short read and has two to go.
C15_Witness ==
    \E h \in Handlers, g \in Handlers :
        /\ h # g
        /\ pc[h] = "read"
        /\ loc[g].hashed
        /\ loc[h].path # loc[g].path
        /\ fs[loc[h].path].content = fs[loc[g].path].content
        /\ Len(fs[loc[h].path].content) = 3
        /\ loc[h].reader.pos = 1
        /\ loc[g].path \in DOMAIN etag_map

\* The key of every call is the canonical path of the path it was given, and
\* a lookup that finds the key answers from the map without hashing, whatever
\* path the request gave.
KeyIsCanonical ==
    /\ DOMAIN etag_map \subseteq CanonPaths
    /\ \A h \in Handlers :
          loc[h].path # "" => loc[h].path = Resolve(req[h].path)

LookupShared ==
    \A h \in Handlers :
        pc[h] = "get" /\ pc'[h] # "get" /\ loc[h].path \in DOMAIN etag_map
           => /\ pc'[h] = "compare"
              /\ loc'[h].etag = Some(etag_map[loc[h].path])
              /\ ~loc'[h].hashed
              /\ computed' = computed

\* C16 as stated: the cache key is the canonical path, input paths with one
\* canonical path share the entry, and every key that enters the map is the
\* canonical path of something that is a regular file when it is inserted.
C16_KeyIsRegularFileAtInsert ==
    /\ []KeyIsCanonical
    /\ [][/\ LookupShared
          /\ \A p \in DOMAIN etag_map' \ DOMAIN etag_map :
                fs[p].kind = "file"]_vars

\* C16, amended: the cache key is the canonical path, input paths with one
\* canonical path share the entry, and every key that enters the map is the
\* canonical path of the inserting call, which was a regular file when that
\* call made its regular-file check (it may have been removed since).
C16_KeyPassedFileCheck ==
    /\ []KeyIsCanonical
    /\ [][/\ LookupShared
          /\ \A h \in Handlers :
                pc[h] = "is_file" /\ pc'[h] \notin {"is_file", "done"}
                    => fs[loc[h].path].kind = "file" /\ pc'[h] = "lock_get"
          /\ \A p \in DOMAIN etag_map' \ DOMAIN etag_map :
                \E h \in Handlers :
                    /\ pc[h] = "insert"
                    /\ pc'[h] = "compare"
                    /\ p = loc[h].path
                    /\ p = Resolve(req[h].path)
                    /\ loc[h].hashed]_vars

\* One call through the link and one through its target have both returned
\* the fingerprint of the one entry, and the file was hashed once.
C16_Witness ==
    \E h \in Responded, g \in Responded :
        /\ req[h].path = "/srv/link"
        /\ req[g].path = "/srv/a.TXT"
        /\ loc[h].hashed # loc[g].hashed
        /\ DOMAIN etag_map = {"/srv/a.TXT"}
        /\ computed["/srv/a.TXT"] = 1
        /\ result[h].etag = result[g].etag
        /\ result[h].etag = etag_map["/srv/a.TXT"]

\* C17: a call that finished hashing stores the fingerprint before anything
\* else: from the end of the hashing pass it only takes the lock and inserts,
\* so at the comparison, at the metadata query and at the open of the body
\* the path is in the map; a call that fails at the metadata query or at the
\* open of the body returns the error and leaves the map as it is, entry
\* included; a later lookup of the path finds the entry and does not hash.
C17_CommittedBeforeResponse ==
    /\ [](\A h \in Handlers :
            \/ pc[h] \in {"compare", "metadata", "open_body"}
            \/ pc[h] = "done" /\ ~result[h].ok
                              /\ result[h].at \in {"metadata", "open_body"}
            => /\ loc[h].path \in DOMAIN etag_map
               /\ loc[h].hashed => loc[h].locks = 2)
    /\ [][/\ LookupShared
          /\ \A h \in Handlers :
               /\ pc[h] = "lock_insert" => pc'[h] \in {"lock_insert", "insert"}
               /\ pc[h] = "insert" /\ pc'[h] # "insert"
                     => /\ pc'[h] = "compare"
                        /\ loc[h].path \in DOMAIN etag_map'
                        /\ etag_map'[loc[h].path] = loc[h].etag[1]
               /\ pc[h] \in {"metadata", "open_body"} /\ pc'[h] = "done"
                                                      /\ ~result'[h].ok
                     => /\ result'[h].at = pc[h]
                        /\ etag_map' = etag_map
                        /\ loc[h].path \in DOMAIN etag_map']_vars

\* A call hashed an uncached file, stored the fingerprint and then failed at
\* the metadata query or at the open of the body; the entry is in the map,
\* and a later call for the path was answered from it without hashing.
C17_Witness ==
    \E h \in Handlers, g \in Responded :
        /\ pc[h] = "done"
        /\ ~result[h].ok
        /\ result[h].at \in {"metadata", "open_body"}
        /\ loc[h].hashed
        /\ loc[h].locks = 2
        /\ etag_map[loc[h].path] = loc[h].etag[1]
        /\ loc[g].path = loc[h].path
        /\ ~loc[g].hashed
        /\ result[g].etag = loc[h].etag[1]
        /\ computed[loc[h].path] = 1

\* A call of from() is in progress in handler h.
InFlight(h) == pc[h] \notin {"idle", "done"}

\* C18: with handlers that are scheduled fairly and files of finite length,
\* every call in progress returns, however the handlers interleave. A call
\* takes the lock at most twice, the second time only after a lookup that
\* missed and a hashing pass; it takes the lock only when nobody, itself
\* included, holds it, and its next step gives it back.
C18_EveryCallReturns ==
    /\ \A h \in Handlers : InFlight(h) ~> (pc[h] = "done")
    /\ [](\A h \in Handlers :
            /\ loc[h].locks <= 2
            /\ loc[h].locks = 2 => loc[h].hashed
            /\ ~loc[h].hashed => loc[h].locks <= 1)
    /\ [][\A h \in Handlers :
            /\ loc'[h].locks = loc[h].locks + 1
                  => /\ \A g \in Handlers : ~holds[g]
                     /\ holds'[h]
            /\ holds[h] /\ pc'[h] # pc[h] => ~holds'[h]
            /\ holds[h] /\ pc'[h] = pc[h] => \A g \in Handlers : pc'[g] # pc[g]
                                                => ~holds'[g]]_vars

\* One handler waits for the lock to insert its fingerprint while the other
\* holds the lock for its own insert: both missed at the lookup.
C18_Witness ==
    \E h \in Handlers, g \in Handlers :
        /\ pc[h] = "lock_insert"
        /\ loc[h].locks = 1
        /\ pc[g] = "insert"
        /\ holds[g]
        /\ loc[g].locks = 2
        /\ loc[g].path = loc[h].path

\* The fingerprints of the contents the file of h's hashing pass has held
\* since the pass opened it.
SeenFingerprints(h) == {EtagOf(c) : c \in loc[h].seen}

\* What a call stores is the fingerprint its hashing pass ended with.
StoresComputed ==
    \A h \in Handlers :
        pc[h] = "insert" /\ pc'[h] # "insert"
            => etag_map'[loc[h].path] = loc[h].etag[1]

\* C19 as stated: every fingerprint stored in the map is the fingerprint of a
\* content the file held at one moment between the start and the end of the
\* hashing pass that produced it, also when the file is written during the
\* pass.
C19_NoMixedFingerprint ==
    [][/\ StoresComputed
       /\ \A h \in Handlers :
             pc[h] = "read" /\ pc'[h] = "lock_insert"
                 => loc'[h].etag[1] \in SeenFingerprints(h)]_vars

\* C19, amended: every fingerprint stored in the map is the fingerprint of
\* the content the file held during the hashing pass that produced it,
\* provided the file held one content from the start to the end of the pass
\* (it may be written before and after, and removed during the pass).
C19_UnmodifiedPassFingerprint ==
    [][/\ StoresComputed
       /\ \A h \in Handlers :
             pc[h] = "read" /\ pc'[h] = "lock_insert"
                 => /\ loc[h].seen # {}
                    /\ Cardinality(loc[h].seen) = 1
                          => loc'[h].etag[1] \in SeenFingerprints(h)]_vars

\* A file was written after a pass had hashed its two bytes undisturbed: the
\* map holds the fingerprint of the content the pass saw, which the file no
\* longer has.
C19_Witness ==
    \E h \in Handlers :
        /\ loc[h].hashed
        /\ pc[h] \in {"compare", "metadata", "open_body", "done"}
        /\ loc[h].path \in DOMAIN etag_map
        /\ etag_map[loc[h].path] = EtagOf(<<97, 98>>)
        /\ fs[loc[h].path].kind = "file"
        /\ fs[loc[h].path].content # <<97, 98>>
        /\ nmod = 1

====
